---- MODULE Spec2Model ----
(***************************************************************************)
(* A model of two parts of ThreatMapper:                                   *)
(*                                                                         *)
(*  - the settings-update HTTP handler UpdateGlobalSettings                *)
(*    (deepfence_server/handler/settings.go), specification Spec;          *)
(*  - the secret-scan listing loader getScans of the console UI            *)
(*    (unnamed/part_000), specification ScanSpec.                          *)
(*                                                                         *)
(* Text is modelled as a sequence of one-character strings, so that        *)
(* parsing and formatting are computed character by character.  Setting    *)
(* keys, error kinds and query-parameter names are atoms (TLA+ strings).   *)
(* A JSON number with a fractional part is a count of quarters: the        *)
(* number q stands for q/4.                                                *)
(***************************************************************************)
EXTENDS Integers, Sequences, FiniteSets, TLC

VARIABLES
    settings,      \* the settings table: id -> row
    pc,            \* "idle" | "responded": position of the HTTP exchange
    req,           \* the request being answered (NoReq when idle)
    resp,          \* the response written by the handler (NoResp when idle)
    writes,        \* rows passed to Setting.Update while answering req
    before,        \* the settings table when req arrived
    searchParams,  \* the query string of the listing: a sequence of <<name, value>>
    loadPc,        \* position of getScans: "idle", "awaitPage", "awaitCount",
                   \* "returned" or "thrown"
    sent,          \* the requests getScans has issued to the search service
    lastResponse,  \* the latest answer of the search service
    pageResult,    \* `result`: the answer to the page request
    loaded,        \* what getScans returned or threw
    mutation,      \* the latest change the listing view made to the query string
    prevParams,    \* the query string before that change
    origin,        \* the query string before the Host box was last checked
    actPc,         \* position of the row action: "idle", "awaitRemote", "returned"
                   \* or "thrown"
    form,          \* the form data submitted to the row action
    toasts,        \* the notifications shown by the row action, in order
    remote,        \* the remote operations the row action has invoked
    actResult,     \* the answer of the remote operation
    clicked,       \* the download names of the anchors the row action clicked
    actError,      \* the error the row action threw, "" when none
    clients        \* concurrent settings requests: client -> its position and data

settingsVars == <<settings, pc, req, resp, writes, before>>
scanVars == <<searchParams, loadPc, sent, lastResponse, pageResult, loaded>>
viewVars == <<mutation, prevParams, origin>>
actionVars == <<actPc, form, toasts, remote, actResult, clicked, actError>>
concVars == <<clients>>

----------------------------------------------------------------------------
(* Bounds of the model *)

\* numeric request values range over -MaxQuarters/4 .. MaxQuarters/4
MaxQuarters == 6
\* host names in the generated URLs have at most this many letters
MaxHostLen == 1
\* the query string holds at most this many name=value entries
MaxParams == 3
\* the count request answers with a count of at most this
MaxCount == 2
MaxSeverity == 2
MaxViewParams == 3
NumClients == 2

----------------------------------------------------------------------------
(* Text helpers *)

HasPrefix(s, p) == Len(s) >= Len(p) /\ SubSeq(s, 1, Len(p)) = p

\* index of the first occurrence of c in s, 0 when absent (strings.Index)
Index(s, c) ==
    IF \E i \in 1..Len(s) : s[i] = c
    THEN CHOOSE i \in 1..Len(s) : s[i] = c /\ \A j \in 1..(i - 1) : s[j] # c
    ELSE 0

\* index of the last occurrence of c in s, 0 when absent (strings.LastIndex)
LastIndex(s, c) ==
    IF \E i \in 1..Len(s) : s[i] = c
    THEN CHOOSE i \in 1..Len(s) : s[i] = c /\ \A j \in (i + 1)..Len(s) : s[j] # c
    ELSE 0

Count(s, c) == Cardinality({i \in 1..Len(s) : s[i] = c})

From(s, i) == SubSeq(s, i, Len(s))

UpperLetters == {"H"}
LowerLetters == {"h", "i", "l", "n", "o", "r", "s", "t", "u", "x"}
Digits == {"0", "1", "2", "3", "4", "5", "6", "7", "8", "9"}
HexLetters == {"a", "b", "c", "d", "e", "f"}

ToLowerChar(c) == IF c = "H" THEN "h" ELSE c

ToLower(s) == [i \in 1..Len(s) |-> ToLowerChar(s[i])]

----------------------------------------------------------------------------
(* net/url: ParseRequestURI, as called by the handler (viaRequest = true). *)
(* Control bytes and IPv6 literals ("[...]") are outside the alphabet of   *)
(* the model.                                                              *)

Empty == <<>>

UrlError(msg) ==
    [ok |-> FALSE, err |-> msg, Scheme |-> Empty, Host |-> Empty,
     User |-> Empty, Path |-> Empty, RawQuery |-> Empty, Opaque |-> Empty]

UrlOk(scheme, user, host, path, query, opaque) ==
    [ok |-> TRUE, err |-> "", Scheme |-> scheme, Host |-> host,
     User |-> user, Path |-> path, RawQuery |-> query, Opaque |-> opaque]

IsLetter(c) == c \in LowerLetters \cup UpperLetters \cup HexLetters

\* getScheme: the scan stops at the first byte that cannot continue a scheme
SchemeStop(raw) ==
    LET bad(i) == ~(IsLetter(raw[i]) \/ (i > 1 /\ raw[i] \in Digits \cup {"+", "-", "."}))
    IN  IF \E i \in 1..Len(raw) : bad(i)
        THEN CHOOSE i \in 1..Len(raw) : bad(i) /\ \A j \in 1..(i - 1) : ~bad(j)
        ELSE 0

getScheme(raw) ==
    LET i == SchemeStop(raw)
    IN  IF i = 0 THEN [ok |-> TRUE, scheme |-> Empty, rest |-> raw]
        ELSE IF raw[i] = ":"
             THEN IF i = 1 THEN [ok |-> FALSE, scheme |-> Empty, rest |-> Empty]
                  ELSE [ok |-> TRUE, scheme |-> SubSeq(raw, 1, i - 1),
                        rest |-> From(raw, i + 1)]
             ELSE [ok |-> TRUE, scheme |-> Empty, rest |-> raw]

\* the query is split off at the first "?"
CutQuery(rest) ==
    IF Len(rest) > 0 /\ rest[Len(rest)] = "?" /\ Count(rest, "?") = 1
    THEN [rest |-> SubSeq(rest, 1, Len(rest) - 1), query |-> Empty]
    ELSE LET i == Index(rest, "?")
         IN  IF i = 0 THEN [rest |-> rest, query |-> Empty]
             ELSE [rest |-> SubSeq(rest, 1, i - 1), query |-> From(rest, i + 1)]

\* validOptionalPort: "" or ":" followed by digits only
validOptionalPort(port) ==
    \/ port = Empty
    \/ /\ port[1] = ":"
       /\ \A i \in 2..Len(port) : port[i] \in Digits

\* bytes a host may hold unescaped (shouldEscape in host mode); a "%" in a
\* host is taken as an error
HostSafe ==
    LowerLetters \cup UpperLetters \cup HexLetters \cup Digits \cup
    {"!", "$", "&", "'", "(", ")", "*", "+", ",", ";", "=", ":", "[", "]",
     "<", ">", "-", "_", ".", "~"}

parseHost(host) ==
    LET i == LastIndex(host, ":")
    IN  IF i # 0 /\ ~validOptionalPort(From(host, i))
        THEN [ok |-> FALSE, host |-> Empty]
        ELSE IF \E k \in 1..Len(host) : host[k] \notin HostSafe
             THEN [ok |-> FALSE, host |-> Empty]
             ELSE [ok |-> TRUE, host |-> host]

UserinfoSafe ==
    LowerLetters \cup UpperLetters \cup HexLetters \cup Digits \cup
    {"-", ".", "_", ":", "~", "!", "$", "&", "'", "(", ")", "*", "+", ",",
     ";", "=", "%", "@"}

parseAuthority(authority) ==
    LET i == LastIndex(authority, "@")
        h == parseHost(From(authority, i + 1))
        userinfo == SubSeq(authority, 1, i - 1)
    IN  IF ~h.ok THEN [ok |-> FALSE, user |-> Empty, host |-> Empty]
        ELSE IF i = 0 THEN [ok |-> TRUE, user |-> Empty, host |-> h.host]
        ELSE IF \E k \in 1..Len(userinfo) : userinfo[k] \notin UserinfoSafe
             THEN [ok |-> FALSE, user |-> Empty, host |-> Empty]
             ELSE [ok |-> TRUE, user |-> userinfo, host |-> h.host]

IsHex(c) == c \in Digits \cup HexLetters

\* setPath fails on a "%" that does not start a %XX escape
validPath(p) ==
    \A i \in 1..Len(p) :
        p[i] = "%" => (i + 2 <= Len(p) /\ IsHex(p[i + 1]) /\ IsHex(p[i + 2]))

ParseAfterScheme(scheme, rest0) ==
    LET q == CutQuery(rest0)
        rest == q.rest
    IN  IF ~HasPrefix(rest, <<"/">>)
        THEN IF scheme # Empty
             THEN UrlOk(scheme, Empty, Empty, Empty, q.query, rest)
             ELSE UrlError("invalid URI for request")
        ELSE IF scheme # Empty /\ HasPrefix(rest, <<"/", "/">>)
        THEN LET auth0 == From(rest, 3)
                 i == Index(auth0, "/")
                 authority == IF i = 0 THEN auth0 ELSE SubSeq(auth0, 1, i - 1)
                 path == IF i = 0 THEN Empty ELSE From(auth0, i)
                 a == parseAuthority(authority)
             IN  IF ~a.ok THEN UrlError("invalid authority")
                 ELSE IF ~validPath(path) THEN UrlError("invalid URL escape")
                 ELSE UrlOk(scheme, a.user, a.host, path, q.query, Empty)
        ELSE IF ~validPath(rest) THEN UrlError("invalid URL escape")
        ELSE UrlOk(scheme, Empty, Empty, rest, q.query, Empty)

ParseRequestURI(rawURL) ==
    IF rawURL = Empty THEN UrlError("empty url")
    ELSE IF rawURL = <<"*">> THEN UrlOk(Empty, Empty, Empty, <<"*">>, Empty, Empty)
    ELSE LET s == getScheme(rawURL)
         IN  IF ~s.ok THEN UrlError("missing protocol scheme")
             ELSE ParseAfterScheme(ToLower(s.scheme), s.rest)

----------------------------------------------------------------------------
(* JSON values of a request body, and values stored in a row *)

JString(s) == [t |-> "string", s |-> s, q |-> 0, b |-> FALSE]
JNumber(q) == [t |-> "number", s |-> Empty, q |-> q, b |-> FALSE]
JBool(b)   == [t |-> "bool", s |-> Empty, q |-> 0, b |-> b]
JNull      == [t |-> "null", s |-> Empty, q |-> 0, b |-> FALSE]

\* what the handler assigns to `value`: a Go string, a Go int, or nil
GoString(s) == [t |-> "string", s |-> s, n |-> 0]
GoInt(n)    == [t |-> "int", s |-> Empty, n |-> n]
GoNil       == [t |-> "nil", s |-> Empty, n |-> 0]

Abs(n) == IF n < 0 THEN -n ELSE n

DigitChar(d) == <<"0", "1", "2", "3", "4", "5", "6", "7", "8", "9">>[d + 1]

RECURSIVE FormatNat(_)
FormatNat(n) == IF n < 10 THEN <<DigitChar(n)>>
                ELSE FormatNat(n \div 10) \o <<DigitChar(n % 10)>>

\* %v of a float64 holding q/4
FormatFloat(q) ==
    LET frac == Abs(q) % 4
    IN  (IF q < 0 THEN <<"-">> ELSE Empty)
        \o FormatNat(Abs(q) \div 4)
        \o (CASE frac = 0 -> Empty
              [] frac = 1 -> <<".", "2", "5">>
              [] frac = 2 -> <<".", "5">>
              [] frac = 3 -> <<".", "7", "5">>)

\* fmt.Sprintf("%s", v): a string is copied, any other value is reported
\* as a bad verb, "%!s(type=value)"
Sprintf(v) ==
    CASE v.t = "string" -> v.s
      [] v.t = "number" ->
            <<"%", "!", "s", "(", "f", "l", "o", "a", "t", "6", "4", "=">>
            \o FormatFloat(v.q) \o <<")">>
      [] v.t = "bool" ->
            <<"%", "!", "s", "(", "b", "o", "o", "l", "=">>
            \o (IF v.b THEN <<"t", "r", "u", "e">> ELSE <<"f", "a", "l", "s", "e">>)
            \o <<")">>
      [] v.t = "null" -> <<"%", "!", "s", "(", "<", "n", "i", "l", ">", ")">>

\* math.Round of q/4: the nearest integer, halves away from zero
Round(q) == IF q >= 0 THEN (q + 2) \div 4 ELSE -((-q + 2) \div 4)

----------------------------------------------------------------------------
(* The settings table (package model) *)

ConsoleURLSettingKey == "console_url"
InactiveNodesDeleteScanResultsKey == "inactive_delete_scan_results"
\* a setting that the handler's switch has no case for
OtherSettingKey == "other_setting"

StatusNoContent == 204
StatusBadRequest == 400
StatusInternalServerError == 500

SettingIds == 1..3

\* the rows created at provisioning time
ProvisionedSettings ==
    [id \in SettingIds |->
        CASE id = 1 -> [key |-> ConsoleURLSettingKey, label |-> "Console URL",
                        value |-> GoString(<<"h", ":", "/", "/", "x">>),
                        description |-> "d1", is_visible |-> TRUE]
          [] id = 2 -> [key |-> InactiveNodesDeleteScanResultsKey,
                        label |-> "Inactive nodes", value |-> GoInt(1),
                        description |-> "d2", is_visible |-> TRUE]
          [] id = 3 -> [key |-> OtherSettingKey, label |-> "Other",
                        value |-> GoString(<<"s">>),
                        description |-> "d3", is_visible |-> FALSE]]

\* model.GetSettingByKey: the row with that key, or an error
GetSettingByKey(tbl, key) ==
    IF \E id \in DOMAIN tbl : tbl[id].key = key
    THEN LET id == CHOOSE i \in DOMAIN tbl : tbl[i].key = key
         IN  [ok |-> TRUE, ID |-> id, Key |-> tbl[id].key,
              Label |-> tbl[id].label, Value |-> tbl[id].value,
              Description |-> tbl[id].description,
              IsVisibleOnUi |-> tbl[id].is_visible]
    ELSE [ok |-> FALSE, ID |-> 0, Key |-> "", Label |-> "", Value |-> GoNil,
          Description |-> "", IsVisibleOnUi |-> FALSE]

\* Setting.Update: writes value (label, value, description) and visibility
\* of the row whose id is setting.ID
SettingUpdate(tbl, setting) ==
    [id \in DOMAIN tbl |->
        IF id = setting.ID
        THEN [tbl[id] EXCEPT !.label = setting.Label,
                             !.value = setting.Value,
                             !.description = setting.Description,
                             !.is_visible = setting.IsVisibleOnUi]
        ELSE tbl[id]]

----------------------------------------------------------------------------
(* The handler *)

\* strconv.ParseInt of the "id" path parameter
ParseInt(text) ==
    CASE text = "1" -> [ok |-> TRUE, n |-> 1]
      [] text = "2" -> [ok |-> TRUE, n |-> 2]
      [] text = "3" -> [ok |-> TRUE, n |-> 3]
      [] text = "4" -> [ok |-> TRUE, n |-> 4]
      [] OTHER -> [ok |-> FALSE, n |-> 0]

\* h.Validator.Struct(req): the key is required
ValidatorStruct(r) == r.key # ""

Success == [status |-> StatusNoContent, kind |-> "none", msg |-> ""]
Failure(status, kind, msg) == [status |-> status, kind |-> kind, msg |-> msg]
ValidatorError(msg) == Failure(StatusBadRequest, "ValidatorError", msg)

Outcome(response, tbl, written) ==
    [resp |-> response, settings |-> tbl, writes |-> written]

\* NormalizeUrl with the path kept
NormalizeUrl_KeepPath(parsedUrl) ==
    parsedUrl.Scheme \o <<":", "/", "/">> \o parsedUrl.Host \o parsedUrl.Path

\* line 77: the console URL kept is scheme://host
NormalizeUrl(parsedUrl) == parsedUrl.Scheme \o <<":", "/", "/">> \o parsedUrl.Host

\* IsFloat64 with the type assertion dropped
IsFloat64_AnyValue(v) == TRUE

\* line 79: req.Value.(float64); JSON numbers decode to float64
IsFloat64(v) == v.t = "number"

\* RoundToInt as a bare int(val), which truncates toward zero
RoundToInt_Truncate(q) == IF q >= 0 THEN q \div 4 ELSE -((-q) \div 4)

\* line 85: int(math.Round(val))
RoundToInt(q) == Round(q)

\* ConvertValue that stores the text of the request for a key it does not name
ConvertValue_KeepOther(key, v) ==
    CASE key = ConsoleURLSettingKey ->
            LET parsedUrl == ParseRequestURI(Sprintf(v))
            IN  IF ~parsedUrl.ok
                THEN [ok |-> FALSE, msg |-> "Key: 'SettingUpdateRequest.Value' Error:must be url",
                      value |-> GoNil]
                ELSE [ok |-> TRUE, msg |-> "", value |-> GoString(NormalizeUrl(parsedUrl))]
      [] key = InactiveNodesDeleteScanResultsKey ->
            IF ~IsFloat64(v)
            THEN [ok |-> FALSE, msg |-> "Key: 'SettingUpdateRequest.Value' Error:must be integer",
                  value |-> GoNil]
            ELSE [ok |-> TRUE, msg |-> "", value |-> GoInt(RoundToInt(v.q))]
      [] OTHER -> [ok |-> TRUE, msg |-> "", value |-> GoString(Sprintf(v))]

\* lines 67-86: the value to store, chosen by the key of the current row
ConvertValue(key, v) ==
    CASE key = ConsoleURLSettingKey ->
            LET parsedUrl == ParseRequestURI(Sprintf(v))
            IN  IF ~parsedUrl.ok
                THEN [ok |-> FALSE, msg |-> "Key: 'SettingUpdateRequest.Value' Error:must be url",
                      value |-> GoNil]
                ELSE [ok |-> TRUE, msg |-> "", value |-> GoString(NormalizeUrl(parsedUrl))]
      [] key = InactiveNodesDeleteScanResultsKey ->
            IF ~IsFloat64(v)
            THEN [ok |-> FALSE, msg |-> "Key: 'SettingUpdateRequest.Value' Error:must be integer",
                  value |-> GoNil]
            ELSE [ok |-> TRUE, msg |-> "", value |-> GoInt(RoundToInt(v.q))]
      [] OTHER -> [ok |-> TRUE, msg |-> "", value |-> GoNil]

\* IdMatches that takes the id of any row
IdMatches_AnyRow(settingId, currentSettings) == settingId \in SettingIds

\* IdMatches with the comparison dropped
IdMatches_Skipped(settingId, currentSettings) == TRUE

\* line 62: the id of the request against the id of the row found by key
IdMatches(settingId, currentSettings) == settingId = currentSettings.ID

\* BuildSetting that does not carry the visibility over
BuildSetting_DropVisibility(id, key, currentSettings, value) ==
    [ID |-> id, Key |-> key, Label |-> currentSettings.Label, Value |-> value,
     Description |-> currentSettings.Description,
     IsVisibleOnUi |-> FALSE]

\* BuildSetting that does not carry the label over
BuildSetting_DropLabel(id, key, currentSettings, value) ==
    [ID |-> id, Key |-> key, Label |-> "", Value |-> value,
     Description |-> currentSettings.Description,
     IsVisibleOnUi |-> currentSettings.IsVisibleOnUi]

\* lines 87-96: the row handed to Setting.Update
BuildSetting(id, key, currentSettings, value) ==
    [ID |-> id, Key |-> key, Label |-> currentSettings.Label, Value |-> value,
     Description |-> currentSettings.Description,
     IsVisibleOnUi |-> currentSettings.IsVisibleOnUi]

\* UpdateGlobalSettings on the table tbl, for request r
HandleUpdate(tbl, r) ==
    LET settingId == ParseInt(r.idText)
        currentSettings == GetSettingByKey(tbl, r.key)
        conv == ConvertValue(currentSettings.Key, r.value)
        setting == BuildSetting(settingId.n, r.key, currentSettings, conv.value)
    IN  IF ~settingId.ok
        THEN Outcome(Failure(StatusBadRequest, "BadDecoding", "id"), tbl, <<>>)
        ELSE IF ~ValidatorStruct(r)
        THEN Outcome(ValidatorError("Key: 'SettingUpdateRequest.Key' Error:required"), tbl, <<>>)
        ELSE IF ~currentSettings.ok
        THEN Outcome(Failure(StatusInternalServerError, "StoreError", "not found"), tbl, <<>>)
        ELSE IF ~IdMatches(settingId.n, currentSettings)
        THEN Outcome(ValidatorError("Key: 'SettingUpdateRequest.ID' Error:invalid"), tbl, <<>>)
        ELSE IF ~conv.ok
        THEN Outcome(ValidatorError(conv.msg), tbl, <<>>)
        ELSE Outcome(Success, SettingUpdate(tbl, setting), <<setting>>)

----------------------------------------------------------------------------
(* Requests *)

Rep(c, k) == [i \in 1..k |-> c]

UrlSchemes == {Empty, <<"h">>, <<"H">>}
UrlSeparators ==
    {Empty, <<":">>, <<":", "/">>, <<":", "/", "/">>, <<"/">>, <<"/", "/">>}
UrlHosts == {Rep("h", k) : k \in 0..MaxHostLen} \cup {<<"u", "@", "h">>}
UrlTails ==
    {Empty, <<"/", "h">>, <<"?", "h">>, <<"#", "h">>, <<"/", "h", "#", "h">>,
     <<"/", "h", "?", "h">>}

UrlTexts ==
    {sc \o sep \o h \o tl :
        sc \in UrlSchemes, sep \in UrlSeparators, h \in UrlHosts, tl \in UrlTails}
    \cup {<<"*">>}

CoreValues ==
    {JNumber(q) : q \in (-MaxQuarters)..MaxQuarters}
    \cup {JNull, JBool(TRUE), JString(<<"a", "b", "c">>),
          JString(<<"h", ":", "/", "/", "h", "/", "h">>)}

RequestKeys ==
    {ConsoleURLSettingKey, InactiveNodesDeleteScanResultsKey, OtherSettingKey,
     "unknown_key", ""}

Requests ==
    [idText : {"1", "2", "3", "4", "x"}, key : RequestKeys, value : CoreValues]
    \cup [idText : {"1", "2"}, key : {ConsoleURLSettingKey},
          value : {JString(u) : u \in UrlTexts}]

NoReq == [idText |-> "", key |-> "", value |-> JNull]
NoResp == [status |-> 0, kind |-> "", msg |-> ""]

----------------------------------------------------------------------------
(* Specification of the settings handler *)

SettingsInit ==
    /\ settings = ProvisionedSettings
    /\ pc = "idle"
    /\ req = NoReq
    /\ resp = NoResp
    /\ writes = <<>>
    /\ before = ProvisionedSettings

\* one PATCH /settings/global-settings/{id} exchange, answered by the handler
UpdateGlobalSettings(r) ==
    /\ pc = "idle"
    /\ LET o == HandleUpdate(settings, r)
       IN  /\ settings' = o.settings
           /\ resp' = o.resp
           /\ writes' = o.writes
    /\ req' = r
    /\ before' = settings
    /\ pc' = "responded"
    /\ UNCHANGED <<scanVars, viewVars, actionVars, concVars>>

\* the exchange is over; the next request may arrive
Finish ==
    /\ pc = "responded"
    /\ pc' = "idle"
    /\ req' = NoReq
    /\ resp' = NoResp
    /\ writes' = <<>>
    /\ before' = settings
    /\ UNCHANGED settings
    /\ UNCHANGED <<scanVars, viewVars, actionVars, concVars>>

Update == \E r \in Requests : UpdateGlobalSettings(r)

----------------------------------------------------------------------------
(* The listing loader: URLSearchParams *)

PAGE_SIZE == 15

\* URLSearchParams.getAll: the values of every entry called name, in order
RECURSIVE getAll(_, _)
getAll(params, name) ==
    IF params = <<>> THEN <<>>
    ELSE (IF Head(params)[1] = name THEN <<Head(params)[2]>> ELSE <<>>)
         \o getAll(Tail(params), name)

Has(params, name) == \E i \in 1..Len(params) : params[i][1] = name

\* String.toUpperCase on the status values of the listing
toUpperCase(v) ==
    CASE v = "complete" -> "COMPLETE"
      [] v = "error" -> "ERROR"
      [] OTHER -> v

getStatusSearch(params) ==
    LET all == getAll(params, "status")
    IN  [i \in 1..Len(all) |-> toUpperCase(all[i])]
getHostsSearch(params) == getAll(params, "hosts")
getContainersSearch(params) == getAll(params, "containers")
getContainerImagesSearch(params) == getAll(params, "containerImages")
getLanguagesSearch(params) == getAll(params, "languages")
getClustersSearch(params) == getAll(params, "clusters")

\* the number written in a page parameter
toNumber(text) ==
    CASE text = "0" -> 0
      [] text = "1" -> 1
      [] text = "2" -> 2
      [] text = "3" -> 3
      [] OTHER -> 0

\* getPageFromSearchParams: the page parameter, 0 when there is none
getPageFromSearchParams(params) ==
    IF Has(params, "page") THEN toNumber(getAll(params, "page")[1]) ELSE 0

\* getOrderFromSearchParams: the sort of the query string, if any
getOrderFromSearchParams(params) ==
    IF Has(params, "sortby")
    THEN [present |-> TRUE, sortBy |-> getAll(params, "sortby")[1],
          descending |-> getAll(params, "desc") # <<>> /\ getAll(params, "desc")[1] = "true"]
    ELSE [present |-> FALSE, sortBy |-> "", descending |-> FALSE]

\* LoaderNodeTypes with no default
LoaderNodeTypes_NoDefault(params) == getAll(params, "nodeType")

\* loader, lines 335-337: the node types handed to getScans
LoaderNodeTypes(params) ==
    IF Len(getAll(params, "nodeType")) # 0
    THEN getAll(params, "nodeType")
    ELSE <<"container_image", "container", "host">>

----------------------------------------------------------------------------
(* The listing loader: the search request *)

\* an object with no property
EmptyObject == [k \in {} |-> <<>>]

\* AddNodeIds that overwrites node_id instead of extending it
AddNodeIds_Overwrite(filters, ids) ==
    IF Len(ids) > 0
    THEN ("node_id" :> ids) @@ [k \in DOMAIN filters \ {"node_id"} |-> filters[k]]
    ELSE filters

\* lines 188-205: nodeFilters.node_id = nodeFilters.node_id ? .concat(ids) : ids
AddNodeIds(filters, ids) ==
    IF Len(ids) > 0
    THEN IF "node_id" \in DOMAIN filters
         THEN [filters EXCEPT !["node_id"] = @ \o ids]
         ELSE ("node_id" :> ids) @@ filters
    ELSE filters

\* lines 171-209
NodeFilters(nodeTypes, params) ==
    LET f0 == ("node_type" :> nodeTypes)
        f1 == AddNodeIds(f0, getHostsSearch(params))
        f2 == AddNodeIds(f1, getContainersSearch(params))
        f3 == AddNodeIds(f2, getContainerImagesSearch(params))
        f4 == AddNodeIds(f3, getLanguagesSearch(params))
        clusters == getClustersSearch(params)
    IN  IF Len(clusters) > 0
        THEN ("kubernetes_cluster_id" :> clusters) @@ f4
        ELSE f4

\* lines 163-169
ScanFilters(params) ==
    LET status == getStatusSearch(params)
    IN  IF Len(status) > 0 THEN ("status" :> status) ELSE EmptyObject

\* lines 211-216
LanguageFilters(params) ==
    LET languages == getLanguagesSearch(params)
    IN  IF Len(languages) > 0 THEN ("trigger_action" :> languages) ELSE EmptyObject

\* OrderFields that orders by a default field when there is no sort
OrderFields_Always(order) ==
    IF order.present
    THEN <<[field_name |-> order.sortBy, descending |-> order.descending]>>
    ELSE <<[field_name |-> "updated_at", descending |-> TRUE]>>

\* lines 238-245
OrderFields(order) ==
    IF order.present
    THEN <<[field_name |-> order.sortBy, descending |-> order.descending]>>
    ELSE <<>>

\* lines 235: the window of the page request
PageWindow(page) == [offset |-> page * PAGE_SIZE, size |-> PAGE_SIZE]

\* lines 218-245: scanRequestParams
ScanRequestParams(nodeTypes, params) ==
    [node_filters |->
        [contains_filter |-> NodeFilters(nodeTypes, params),
         order_fields |-> <<>>,
         match_filter |-> EmptyObject],
     scan_filters |->
        [contains_filter |-> ScanFilters(params),
         order_fields |-> OrderFields(getOrderFromSearchParams(params)),
         match_filter |-> LanguageFilters(params)],
     window |-> PageWindow(getPageFromSearchParams(params))]

\* CountRequestParams that counts from the first row
CountRequestParams_FromStart(scanRequestParams) ==
    [scanRequestParams EXCEPT !.window =
        [offset |-> 0, size |-> 10 * scanRequestParams.window.size]]

\* lines 270-276: the body of the count request
CountRequestParams(scanRequestParams) ==
    [scanRequestParams EXCEPT !.window.size = 10 * scanRequestParams.window.size]

----------------------------------------------------------------------------
(* The listing loader: answers of the search service *)

Undefined == [def |-> FALSE, n |-> 0]
Some(n) == [def |-> TRUE, n |-> n]

\* a ?? d
Coalesce(a, d) == IF a.def THEN a.n ELSE d

RawRow(id, critical, high, medium, low, unknown) ==
    [scan_id |-> id,
     severity_counts |-> [critical |-> critical, high |-> high, medium |-> medium,
                          low |-> low, unknown |-> unknown]]

RawRows ==
    {RawRow("s1", Some(1), Some(2), Some(0), Some(1), Some(3)),
     RawRow("s2", Undefined, Some(2), Undefined, Some(1), Undefined)}

\* the answer to the page request: null, or a list of rows
PageBodies ==
    {[isNull |-> TRUE, rows |-> <<>>], [isNull |-> FALSE, rows |-> <<>>]}
    \cup {[isNull |-> FALSE, rows |-> <<r>>] : r \in RawRows}

NoMessage == [def |-> FALSE, text |-> ""]
Message(text) == [def |-> TRUE, text |-> text]

ErrorStatuses == {400, 403, 404, 500}

NoBody == [isNull |-> TRUE, rows |-> <<>>]

\* answers to the page request
PageResponses ==
    {[status |-> 200, message |-> NoMessage, body |-> b, count |-> 0] : b \in PageBodies}
    \cup {[status |-> st, message |-> m, body |-> NoBody, count |-> 0] :
            st \in ErrorStatuses, m \in {NoMessage, Message("bad request")}}

\* answers to the count request
CountResponses ==
    {[status |-> 200, message |-> NoMessage, body |-> NoBody, count |-> c] : c \in 0..MaxCount}
    \cup {[status |-> st, message |-> m, body |-> NoBody, count |-> 0] :
            st \in ErrorStatuses, m \in {NoMessage, Message("bad request")}}

NoResponse == [status |-> 0, message |-> NoMessage, body |-> NoBody, count |-> 0]

\* lines 153-162: `results` as first built
InitialResults ==
    [scans |-> <<>>, currentPage |-> 1, totalRows |-> 0, message |-> NoMessage]

\* errorHandler that leaves the message of the payload out
errorHandler_NoMessage(r) ==
    IF r.status = 400
    THEN [isApiError |-> TRUE, value |-> InitialResults]
    ELSE [isApiError |-> FALSE, value |-> InitialResults]

\* lines 250-259 and 279-288: the errorHandler handed to makeRequest; it
\* answers an ApiError for status 400 and nothing for any other status
errorHandler(r) ==
    IF r.status = 400
    THEN [isApiError |-> TRUE, value |-> [InitialResults EXCEPT !.message = r.message]]
    ELSE [isApiError |-> FALSE, value |-> InitialResults]

\* makeRequest: the body of a successful answer; for a failed one, what the
\* errorHandler returns, and the transport's error when it returns nothing
makeRequest(r) ==
    IF r.status = 200
    THEN [ok |-> TRUE, isApiError |-> FALSE, value |-> InitialResults]
    ELSE [ok |-> FALSE, isApiError |-> errorHandler(r).isApiError,
          value |-> errorHandler(r).value]

\* PageRequestFailed that lets getScans go on after a failed page request
PageRequestFailed_Ignored(result) == FALSE

\* lines 262-264: getScans stops when the page request did not succeed
PageRequestFailed(result) == ~result.ok

\* what getScans throws: result.value() of an ApiError, or the error that
\* makeRequest let through
Thrown(m) ==
    IF m.isApiError
    THEN [kind |-> "ApiError", results |-> m.value]
    ELSE [kind |-> "ResponseError", results |-> InitialResults]

Returned(results) == [kind |-> "returned", results |-> results]

NotLoaded == [kind |-> "none", results |-> InitialResults]

\* NormalizeRow that counts the unknown tier in the total
NormalizeRow_TotalWithUnknown(scan) ==
    LET sev == scan.severity_counts
        critical == Coalesce(sev.critical, 0)
        high == Coalesce(sev.high, 0)
        medium == Coalesce(sev.medium, 0)
        low == Coalesce(sev.low, 0)
        unknown == Coalesce(sev.unknown, 0)
    IN  [scan_id |-> scan.scan_id,
         total |-> critical + high + medium + low + unknown,
         critical |-> critical, high |-> high, medium |-> medium,
         low |-> low, unknown |-> unknown]

\* lines 299-322: one row of results.scans
NormalizeRow(scan) ==
    LET sev == scan.severity_counts
        critical == Coalesce(sev.critical, 0)
        high == Coalesce(sev.high, 0)
        medium == Coalesce(sev.medium, 0)
        low == Coalesce(sev.low, 0)
        unknown == Coalesce(sev.unknown, 0)
    IN  [scan_id |-> scan.scan_id,
         total |-> critical + high + medium + low,
         critical |-> critical, high |-> high, medium |-> medium,
         low |-> low, unknown |-> unknown]

\* FinalResults with no test of a null page result
FinalResults_NoNullCheck(result, count, page) ==
    [scans |-> [i \in 1..Len(result.rows) |-> NormalizeRow(result.rows[i])],
     currentPage |-> page,
     totalRows |-> page * PAGE_SIZE + count,
     message |-> NoMessage]

\* FinalResults that reports the count of the window as the total
FinalResults_CountOnly(result, count, page) ==
    IF result.isNull
    THEN InitialResults
    ELSE [scans |-> [i \in 1..Len(result.rows) |-> NormalizeRow(result.rows[i])],
          currentPage |-> page,
          totalRows |-> count,
          message |-> NoMessage]

\* lines 295-327: the value getScans returns
FinalResults(result, count, page) ==
    IF result.isNull
    THEN InitialResults
    ELSE [scans |-> [i \in 1..Len(result.rows) |-> NormalizeRow(result.rows[i])],
          currentPage |-> page,
          totalRows |-> page * PAGE_SIZE + count,
          message |-> NoMessage]

----------------------------------------------------------------------------
(* Specification of the listing loader *)

QueryEntries ==
    {<<"status", "complete">>, <<"hosts", "h1">>, <<"containers", "c1">>,
     <<"containerImages", "i1">>, <<"languages", "l1">>, <<"clusters", "k1">>,
     <<"nodeType", "host">>, <<"page", "1">>, <<"page", "2">>,
     <<"sortby", "updated_at">>, <<"desc", "true">>}

QueryStrings == UNION {[1..n -> QueryEntries] : n \in 0..MaxParams}

ScanInit ==
    /\ searchParams \in QueryStrings
    /\ loadPc = "idle"
    /\ sent = <<>>
    /\ lastResponse = NoResponse
    /\ pageResult = NoBody
    /\ loaded = NotLoaded

ScanIdle ==
    /\ searchParams = <<>>
    /\ loadPc = "idle"
    /\ sent = <<>>
    /\ lastResponse = NoResponse
    /\ pageResult = NoBody
    /\ loaded = NotLoaded

SettingsIdle == SettingsInit

\* loader and getScans up to the first await: the page request is issued
StartLoad ==
    /\ loadPc = "idle"
    /\ sent' = <<[api |-> "searchSecretsScan",
                  body |-> ScanRequestParams(LoaderNodeTypes(searchParams), searchParams)]>>
    /\ loadPc' = "awaitPage"
    /\ UNCHANGED <<searchParams, lastResponse, pageResult, loaded>>
    /\ UNCHANGED <<settingsVars, viewVars, actionVars, concVars>>

\* lines 247-293: the page request is answered; getScans throws, or issues
\* the count request
PageAnswered(r) ==
    /\ loadPc = "awaitPage"
    /\ lastResponse' = r
    /\ LET result == makeRequest(r)
       IN  IF PageRequestFailed(result)
           THEN /\ loaded' = Thrown(result)
                /\ loadPc' = "thrown"
                /\ UNCHANGED <<sent, pageResult>>
           ELSE /\ pageResult' = r.body
                /\ sent' = Append(sent, [api |-> "searchSecretScanCount",
                                         body |-> CountRequestParams(sent[1].body)])
                /\ loadPc' = "awaitCount"
                /\ UNCHANGED loaded
    /\ UNCHANGED searchParams
    /\ UNCHANGED <<settingsVars, viewVars, actionVars, concVars>>

\* lines 291-327: the count request is answered; getScans throws or returns
CountAnswered(r) ==
    /\ loadPc = "awaitCount"
    /\ lastResponse' = r
    /\ LET countsResult == makeRequest(r)
       IN  IF ~countsResult.ok
           THEN /\ loaded' = Thrown(countsResult)
                /\ loadPc' = "thrown"
           ELSE /\ loaded' = Returned(FinalResults(pageResult, r.count,
                                          getPageFromSearchParams(searchParams)))
                /\ loadPc' = "returned"
    /\ UNCHANGED <<searchParams, sent, pageResult>>
    /\ UNCHANGED <<settingsVars, viewVars, actionVars, concVars>>

\* the route is revalidated: the loader runs again on the same query string
Revalidate ==
    /\ loadPc \in {"returned", "thrown"}
    /\ loadPc' = "idle"
    /\ sent' = <<>>
    /\ lastResponse' = NoResponse
    /\ pageResult' = NoBody
    /\ loaded' = NotLoaded
    /\ UNCHANGED searchParams
    /\ UNCHANGED <<settingsVars, viewVars, actionVars, concVars>>

PageAnswer == \E r \in PageResponses : PageAnswered(r)
CountAnswer == \E r \in CountResponses : CountAnswered(r)

----------------------------------------------------------------------------
(* Specification of the listing loader over every shape of a row *)

Tiers == {"critical", "high", "medium", "low", "unknown"}

\* a severity count as the service sends it: missing, or a number
SeverityCounts == {Undefined} \cup {Some(n) : n \in 0..MaxSeverity}

SeverityRows ==
    {[scan_id |-> "s1", severity_counts |-> sev] : sev \in [Tiers -> SeverityCounts]}

\* successful answers to the page request: one row of any shape, or the two
\* rows of RawRows
SeverityPageResponses ==
    {[status |-> 200, message |-> NoMessage,
      body |-> [isNull |-> FALSE, rows |-> <<r>>], count |-> 0] : r \in SeverityRows}
    \cup {[status |-> 200, message |-> NoMessage,
           body |-> [isNull |-> FALSE,
                     rows |-> <<RawRow("s1", Some(1), Some(2), Some(0), Some(1), Some(3)),
                                RawRow("s2", Undefined, Some(2), Undefined, Some(1),
                                       Undefined)>>],
           count |-> 0]}

SeverityInit ==
    /\ searchParams \in {<<>>, <<<<"page", "1">>>>}
    /\ loadPc = "idle"
    /\ sent = <<>>
    /\ lastResponse = NoResponse
    /\ pageResult = NoBody
    /\ loaded = NotLoaded

SeverityPageAnswer == \E r \in SeverityPageResponses : PageAnswered(r)

----------------------------------------------------------------------------
(* The listing view: changes of the query string *)

NoMutation ==
    [kind |-> "none", box |-> [name |-> "", value |-> "", shape |-> ""],
     selection |-> [name |-> "", values |-> <<>>], pageIndex |-> 0, sortState |-> <<>>]
NoOrigin == [set |-> FALSE, params |-> <<>>]

ViewIdle ==
    /\ mutation = NoMutation
    /\ prevParams = <<>>
    /\ origin = NoOrigin

\* URLSearchParams.append
append(params, name, value) == Append(params, <<name, value>>)

\* URLSearchParams.delete: every entry called name goes
delete(params, name) == SelectSeq(params, LAMBDA e : e[1] # name)

\* URLSearchParams.set: the first entry called name takes the value and the
\* other entries called name go; with no such entry, the entry is appended
set(params, name, value) ==
    IF Has(params, name)
    THEN LET first == CHOOSE i \in 1..Len(params) :
                         /\ params[i][1] = name
                         /\ \A j \in 1..(i - 1) : params[j][1] # name
         IN  SubSeq(params, 1, first - 1) \o <<<<name, value>>>>
             \o delete(SubSeq(params, first + 1, Len(params)), name)
    ELSE append(params, name, value)

\* values.forEach((v) => prev.append(name, v))
RECURSIVE appendAll(_, _, _)
appendAll(params, name, values) ==
    IF values = <<>> THEN params
    ELSE appendAll(append(params, name, Head(values)), name, Tail(values))

\* Array.filter((status) => status !== value)
filter(values, value) == SelectSeq(values, LAMBDA v : v # value)

\* Array.includes
includes(values, value) == \E i \in 1..Len(values) : values[i] = value

\* String(newPageIndex)
String(n) ==
    CASE n = 0 -> "0"
      [] n = 1 -> "1"
      [] n = 2 -> "2"
      [] n = 3 -> "3"

\* String(newSortState[0].desc)
StringOfBoolean(b) == IF b THEN "true" ELSE "false"

\* lines 896, 921, 946, 978, 1003, 1028: the checked prop of a box
checked(params, name, value) == includes(getAll(params, name), value)

\* lines 898-903 (and 923-928, 950-955, 980-985, 1005-1010, 1030-1035):
\* onCheckedChange(true)
CheckBox(params, name, value) == delete(append(params, name, value), "page")

\* UncheckThenPage that forgets the other values of the parameter
UncheckThenPage_DropOthers(params, name, value) ==
    delete(delete(params, name), "page")

\* lines 905-915 (Host; Container 930-940, In Progress 1012-1022):
\* onCheckedChange(false): delete name, append the other values, delete page
UncheckThenPage(params, name, value) ==
    LET prevStatuses == getAll(params, name)
    IN  delete(appendAll(delete(params, name), name, filter(prevStatuses, value)),
               "page")

\* lines 957-966 (Container Images): delete page, delete name, append the
\* other values
UncheckPageFirst(params, name, value) ==
    LET prevStatuses == getAll(params, name)
    IN  appendAll(delete(delete(params, "page"), name), name,
                  filter(prevStatuses, value))

\* lines 987-997 (Completed; Error 1037-1047): delete name, delete page,
\* append the other values
UncheckPageBetween(params, name, value) ==
    LET prevStatuses == getAll(params, name)
    IN  appendAll(delete(delete(params, name), "page"), name,
                  filter(prevStatuses, value))

\* the boxes of the filter form and the shape of their uncheck branch
Boxes ==
    {[name |-> "nodeType", value |-> "host", shape |-> "thenPage"],
     [name |-> "nodeType", value |-> "container", shape |-> "thenPage"],
     [name |-> "nodeType", value |-> "container_image", shape |-> "pageFirst"],
     [name |-> "status", value |-> "complete", shape |-> "pageBetween"],
     [name |-> "status", value |-> "in_progress", shape |-> "thenPage"],
     [name |-> "status", value |-> "error", shape |-> "pageBetween"]}

HostBox == [name |-> "nodeType", value |-> "host", shape |-> "thenPage"]

UncheckBox(params, box) ==
    CASE box.shape = "thenPage" -> UncheckThenPage(params, box.name, box.value)
      [] box.shape = "pageFirst" -> UncheckPageFirst(params, box.name, box.value)
      [] box.shape = "pageBetween" -> UncheckPageBetween(params, box.name, box.value)

\* SelectValues that keeps the page parameter
SelectValues_KeepPage(params, name, values) ==
    appendAll(delete(params, name), name, values)

\* lines 1064-1073, 1098-1107, 1130-1139, 1162-1171: onChange of a selection
SelectValues(params, name, values) ==
    delete(appendAll(delete(params, name), name, values), "page")

\* lines 1227-1230
SetPage(params, newPageIndex) == set(params, "page", String(newPageIndex))

\* lines 1243-1251; a sort state is <<>> or <<[id, desc]>>
SetSort(params, newSortState) ==
    IF Len(newSortState) = 0
    THEN delete(delete(params, "sortby"), "desc")
    ELSE set(set(params, "sortby", newSortState[1].id),
             "desc", StringOfBoolean(newSortState[1].desc))

\* the inputs of the view
Selections ==
    {[name |-> "hosts", values |-> <<>>],
     [name |-> "hosts", values |-> <<"h1">>],
     [name |-> "hosts", values |-> <<"h1", "h2">>],
     [name |-> "containers", values |-> <<"c1">>],
     [name |-> "containerImages", values |-> <<"i1">>],
     [name |-> "clusters", values |-> <<"k1">>]}

PageIndexes == {0, 1, 2}

SortStates ==
    {<<>>, <<[id |-> "updated_at", desc |-> TRUE]>>,
     <<[id |-> "updated_at", desc |-> FALSE]>>, <<[id |-> "node_name", desc |-> TRUE]>>}

\* a change of the query string: its kind, the box, selection, page index or
\* sort state it was made with
Mutation(kind, box, selection, pageIndex, sortState) ==
    [kind |-> kind, box |-> box, selection |-> selection, pageIndex |-> pageIndex,
     sortState |-> sortState]

NoSelection == [name |-> "", values |-> <<>>]

CheckOf(box) == Mutation("check", box, NoSelection, 0, <<>>)
UncheckOf(box) == Mutation("uncheck", box, NoSelection, 0, <<>>)
SelectOf(selection) == Mutation("select", HostBox, selection, 0, <<>>)
PageOf(newPageIndex) == Mutation("page", HostBox, NoSelection, newPageIndex, <<>>)
SortOf(newSortState) == Mutation("sort", HostBox, NoSelection, 0, newSortState)

\* the query string a change makes of params
Apply(m, params) ==
    CASE m.kind = "check" -> CheckBox(params, m.box.name, m.box.value)
      [] m.kind = "uncheck" -> UncheckBox(params, m.box)
      [] m.kind = "select" -> SelectValues(params, m.selection.name, m.selection.values)
      [] m.kind = "page" -> SetPage(params, m.pageIndex)
      [] m.kind = "sort" -> SetSort(params, m.sortState)
      [] OTHER -> params

ViewInit ==
    /\ searchParams = <<>>
    /\ loadPc = "idle"
    /\ sent = <<>>
    /\ lastResponse = NoResponse
    /\ pageResult = NoBody
    /\ loaded = NotLoaded
    /\ ViewIdle

\* setSearchParams: the query string becomes what the change makes of it;
\* the query strings of the model hold at most MaxViewParams entries
Mutate(m) ==
    /\ Len(Apply(m, searchParams)) <= MaxViewParams
    /\ searchParams' = Apply(m, searchParams)
    /\ prevParams' = searchParams
    /\ mutation' = m
    /\ origin' = IF m = CheckOf(HostBox) THEN [set |-> TRUE, params |-> searchParams]
                 ELSE IF m = UncheckOf(HostBox) /\ mutation = CheckOf(HostBox) THEN origin
                 ELSE NoOrigin
    /\ UNCHANGED <<loadPc, sent, lastResponse, pageResult, loaded>>
    /\ UNCHANGED <<settingsVars, actionVars, concVars>>

\* a click on a box: the box hands the opposite of its checked prop to
\* onCheckedChange
Check ==
    \E box \in Boxes :
        /\ ~checked(searchParams, box.name, box.value)
        /\ Mutate(CheckOf(box))

Uncheck ==
    \E box \in Boxes :
        /\ checked(searchParams, box.name, box.value)
        /\ Mutate(UncheckOf(box))

Select == \E selection \in Selections : Mutate(SelectOf(selection))

ChangePage == \E newPageIndex \in PageIndexes : Mutate(PageOf(newPageIndex))

ChangeSort == \E newSortState \in SortStates : Mutate(SortOf(newSortState))

----------------------------------------------------------------------------
(* The row action *)

NoForm == [actionType |-> "", scanId |-> "", nodeId |-> ""]

ActionIdle ==
    /\ actPc = "idle"
    /\ form = NoForm
    /\ toasts = <<>>
    /\ remote = <<>>
    /\ actResult = NoResponse
    /\ clicked = <<>>
    /\ actError = ""

\* lines 97-100
ActionEnumType == [DELETE |-> "delete", DOWNLOAD |-> "download"]

\* the form data of a submission; "" stands for a field that is not there
Forms ==
    [actionType : {"", "delete", "download", "other"},
     scanId : {"", "s1", "s2"},
     nodeId : {"", "n1", "n2"}]

\* InvalidAction that tests the action type only
InvalidAction_TypeOnly(f) == f.actionType = ""

\* lines 353: !actionType || !scanId || !nodeId
InvalidAction(f) == f.actionType = "" \/ f.scanId = "" \/ f.nodeId = ""

ActionErrorStatuses == {400, 404, 409, 500}

\* answers of the removal and of the export operation
ActionResponses ==
    {[status |-> 200, message |-> NoMessage, body |-> NoBody, count |-> 0]}
    \cup {[status |-> st, message |-> m, body |-> NoBody, count |-> 0] :
            st \in ActionErrorStatuses, m \in {NoMessage, Message("bad request")}}

\* modelResponse.message ?? ''
MessageOrEmpty(m) == IF m.def THEN m ELSE Message("")

\* deleteErrorHandler that handles status 400 only
deleteErrorHandler_OnlyBadRequest(r) ==
    IF r.status = 400
    THEN [isApiError |-> TRUE, message |-> MessageOrEmpty(r.message)]
    ELSE [isApiError |-> FALSE, message |-> NoMessage]

\* lines 367-377: the errorHandler of the removal: an ApiError for status
\* 400 and 409, nothing for any other status
deleteErrorHandler(r) ==
    IF r.status = 400 \/ r.status = 409
    THEN [isApiError |-> TRUE, message |-> MessageOrEmpty(r.message)]
    ELSE [isApiError |-> FALSE, message |-> NoMessage]

\* lines 397-407: the errorHandler of the export
downloadErrorHandler(r) ==
    IF r.status = 400 \/ r.status = 409
    THEN [isApiError |-> TRUE, message |-> MessageOrEmpty(r.message)]
    ELSE [isApiError |-> FALSE, message |-> NoMessage]

\* makeRequest with the answer `handled` of the errorHandler: as makeRequest
\* above, it returns the ApiError of the handler and lets the transport's
\* error through when the handler returns nothing
makeRequestWith(r, handled) ==
    IF r.status = 200
    THEN [ok |-> TRUE, thrown |-> FALSE, isApiError |-> FALSE, message |-> NoMessage]
    ELSE [ok |-> FALSE, thrown |-> ~handled.isApiError,
          isApiError |-> handled.isApiError, message |-> handled.message]

ErrorToast(text) == [kind |-> "error", text |-> text]
SuccessToast(text) == [kind |-> "success", text |-> text]

\* lines 378-383 and 408-413: the error notification of a result
ErrorToasts(result) ==
    IF result.isApiError /\ result.message.def
    THEN <<ErrorToast(result.message.text)>>
    ELSE <<>>

\* lines 378-386: the notifications of the delete branch
DeleteToasts(result) ==
    ErrorToasts(result) \o <<SuccessToast("Scan deleted successfully")>>

\* lines 408-415: the notifications of the download branch
DownloadToasts(result) ==
    ErrorToasts(result) \o <<SuccessToast("Download is in progress")>>

\* dayjs(new Date()).unix(), in the model
UnixTimes == {1, 2}

\* lines 416-420: the anchor the download branch clicks
Anchor(unixTime) ==
    [href |-> "https://64.227.142.80/deepfence/openapi.json",
     download |-> <<"secret_scan_", unixTime>>]

RemoteCall(api, f) == [api |-> api, scanId |-> f.scanId, scanType |-> "SecretScan"]

ActionInit ==
    /\ actPc = "idle"
    /\ form \in Forms
    /\ toasts = <<>>
    /\ remote = <<>>
    /\ actResult = NoResponse
    /\ clicked = <<>>
    /\ actError = ""

\* lines 349-366 and 387-396: action up to its await
Submit ==
    /\ actPc = "idle"
    /\ IF InvalidAction(form)
       THEN /\ actPc' = "thrown"
            /\ actError' = "Invalid action"
            /\ UNCHANGED remote
       ELSE IF form.actionType = ActionEnumType.DELETE
       THEN /\ actPc' = "awaitRemote"
            /\ remote' = <<RemoteCall("deleteScanResultsForScanID", form)>>
            /\ UNCHANGED actError
       ELSE IF form.actionType = ActionEnumType.DOWNLOAD
       THEN /\ actPc' = "awaitRemote"
            /\ remote' = <<RemoteCall("downloadScanResultsForScanID", form)>>
            /\ UNCHANGED actError
       ELSE /\ actPc' = "returned"
            /\ UNCHANGED <<remote, actError>>
    /\ UNCHANGED <<form, toasts, actResult, clicked>>
    /\ UNCHANGED <<settingsVars, scanVars, viewVars, concVars>>

\* lines 358-386: the removal is answered
DeleteAnswered(r) ==
    /\ actPc = "awaitRemote"
    /\ form.actionType = ActionEnumType.DELETE
    /\ actResult' = r
    /\ LET result == makeRequestWith(r, deleteErrorHandler(r))
       IN  IF result.thrown
           THEN /\ actPc' = "thrown"
                /\ actError' = "ResponseError"
                /\ UNCHANGED toasts
           ELSE /\ toasts' = toasts \o DeleteToasts(result)
                /\ actPc' = "returned"
                /\ UNCHANGED actError
    /\ UNCHANGED <<form, remote, clicked>>
    /\ UNCHANGED <<settingsVars, scanVars, viewVars, concVars>>

\* lines 388-423: the export is answered
DownloadAnswered(r, unixTime) ==
    /\ actPc = "awaitRemote"
    /\ form.actionType = ActionEnumType.DOWNLOAD
    /\ actResult' = r
    /\ LET result == makeRequestWith(r, downloadErrorHandler(r))
       IN  IF result.thrown
           THEN /\ actPc' = "thrown"
                /\ actError' = "ResponseError"
                /\ UNCHANGED <<toasts, clicked>>
           ELSE /\ toasts' = toasts \o DownloadToasts(result)
                /\ clicked' = Append(clicked, Anchor(unixTime))
                /\ actPc' = "returned"
                /\ UNCHANGED actError
    /\ UNCHANGED <<form, remote>>
    /\ UNCHANGED <<settingsVars, scanVars, viewVars, concVars>>

DeleteAnswer == \E r \in ActionResponses : DeleteAnswered(r)

DownloadAnswer ==
    \E r \in ActionResponses, unixTime \in UnixTimes : DownloadAnswered(r, unixTime)

----------------------------------------------------------------------------
(* Concurrent settings requests *)

ConcIdle == clients = <<>>

Clients == 1..NumClients

NoSetting ==
    [ID |-> 0, Key |-> "", Label |-> "", Value |-> GoNil, Description |-> "",
     IsVisibleOnUi |-> FALSE]

\* a request that has not arrived yet
IdleClient ==
    [pc |-> "idle", req |-> NoReq, read |-> GoNil, setting |-> NoSetting, resp |-> NoResp]

\* the requests of the concurrent clients
ConcRequests ==
    [idText : {"1"}, key : {ConsoleURLSettingKey},
     value : {JString(<<"h", ":", "/", "/", "h", "/", "h">>),
              JString(<<"H", ":", "/", "/", "h", "h">>),
              JString(<<"a", "b", "c">>)}]
    \cup [idText : {"2"}, key : {InactiveNodesDeleteScanResultsKey},
          value : {JNumber(6), JNumber(-2), JBool(TRUE)}]
    \cup {[idText |-> "2", key |-> ConsoleURLSettingKey,
           value |-> JString(<<"h", ":", "/", "/", "h", "/", "h">>)]}

ConcInit == clients = [c \in Clients |-> IdleClient]

\* lines 39-96 for client c: the request is decoded and validated, the row
\* is read (line 57) and the setting to write is built; a request that fails
\* is answered here
ReadAndValidate(c, r) ==
    /\ clients[c].pc = "idle"
    /\ LET o == HandleUpdate(settings, r)
           currentSettings == GetSettingByKey(settings, r.key)
       IN  IF o.writes = <<>>
           THEN clients' = [clients EXCEPT ![c] =
                    [pc |-> "done", req |-> r, read |-> currentSettings.Value,
                     setting |-> NoSetting, resp |-> o.resp]]
           ELSE clients' = [clients EXCEPT ![c] =
                    [pc |-> "write", req |-> r, read |-> currentSettings.Value,
                     setting |-> o.writes[1], resp |-> NoResp]]
    /\ UNCHANGED settingsVars
    /\ UNCHANGED <<scanVars, viewVars, actionVars>>

\* lines 97-102 for client c: setting.Update, then 204
WriteAndRespond(c) ==
    /\ clients[c].pc = "write"
    /\ settings' = SettingUpdate(settings, clients[c].setting)
    /\ clients' = [clients EXCEPT ![c].pc = "done", ![c].resp = Success]
    /\ UNCHANGED <<pc, req, resp, writes, before>>
    /\ UNCHANGED <<scanVars, viewVars, actionVars>>

Read == \E c \in Clients, r \in ConcRequests : ReadAndValidate(c, r)
Write == \E c \in Clients : WriteAndRespond(c)

----------------------------------------------------------------------------
(* The specifications *)

vars == <<settings, pc, req, resp, writes, before,
          searchParams, loadPc, sent, lastResponse, pageResult, loaded,
          mutation, prevParams, origin,
          actPc, form, toasts, remote, actResult, clicked, actError,
          clients>>

Init == SettingsInit /\ ScanIdle /\ ViewIdle /\ ActionIdle /\ ConcIdle

Next ==
    \/ Update
    \/ Finish

Spec == Init /\ [][Next]_vars

ScanSpecInit == ScanInit /\ SettingsIdle /\ ViewIdle /\ ActionIdle /\ ConcIdle

ScanNext ==
    \/ StartLoad
    \/ PageAnswer
    \/ CountAnswer
    \/ Revalidate

ScanSpec == ScanSpecInit /\ [][ScanNext]_vars

SeveritySpecInit ==
    SeverityInit /\ SettingsIdle /\ ViewIdle /\ ActionIdle /\ ConcIdle

SeverityNext ==
    \/ StartLoad
    \/ SeverityPageAnswer
    \/ CountAnswer
    \/ Revalidate

SeveritySpec == SeveritySpecInit /\ [][SeverityNext]_vars

ViewSpecInit == ViewInit /\ SettingsIdle /\ ActionIdle /\ ConcIdle

ViewNext ==
    \/ Check
    \/ Uncheck
    \/ Select
    \/ ChangePage
    \/ ChangeSort

ViewSpec == ViewSpecInit /\ [][ViewNext]_vars

ActionSpecInit == ActionInit /\ SettingsIdle /\ ScanIdle /\ ViewIdle /\ ConcIdle

ActionNext ==
    \/ Submit
    \/ DeleteAnswer
    \/ DownloadAnswer

ActionSpec == ActionSpecInit /\ [][ActionNext]_vars

ConcSpecInit == ConcInit /\ SettingsInit /\ ScanIdle /\ ViewIdle /\ ActionIdle

ConcNext ==
    \/ Read
    \/ Write

ConcSpec == ConcSpecInit /\ [][ConcNext]_vars

----------------------------------------------------------------------------
(* Properties of the settings handler *)

Responded == pc = "responded"

MustBeUrl == ValidatorError("Key: 'SettingUpdateRequest.Value' Error:must be url")
MustBeInteger == ValidatorError("Key: 'SettingUpdateRequest.Value' Error:must be integer")

\* input validation errors: malformed id, struct validation, id/key
\* mismatch, bad URL, non-numeric value
IsValidationError(r) == r.kind \in {"BadDecoding", "ValidatorError"}

NothingWritten == settings = before /\ writes = <<>>

\* the request names, by id and key, one row of the table as it was
Addresses(r, key) ==
    /\ r.key = key
    /\ ParseInt(r.idText).ok
    /\ ParseInt(r.idText).n \in DOMAIN before
    /\ before[ParseInt(r.idText).n].key = key

\* the key of the request is not the key of the row its id names
KeyMismatch(r) ==
    ~(\E id \in DOMAIN before :
        /\ ParseInt(r.idText).ok
        /\ ParseInt(r.idText).n = id
        /\ before[id].key = r.key)

KeyOfNoRow(r) == \A id \in DOMAIN before : before[id].key # r.key

\* C1 (as claimed): a request whose key differs from the key of the row
\* named by its id fails with a validation error and nothing is written.
C1_Original ==
    (Responded /\ KeyMismatch(req)) =>
        (IsValidationError(resp) /\ NothingWritten)

\* C1 (amended): a request whose key differs from the key of the row named
\* by its id fails and nothing is written; the failure is a validation error
\* unless the request is well formed and no row has its key, and then it is
\* the lookup error of the store.
C1_KeyMismatchFails ==
    (Responded /\ KeyMismatch(req)) =>
        /\ resp # Success
        /\ NothingWritten
        /\ IF ParseInt(req.idText).ok /\ req.key # "" /\ KeyOfNoRow(req)
           THEN resp.kind = "StoreError"
           ELSE IsValidationError(resp)

C1_Witness ==
    /\ Responded
    /\ req.idText = "1"
    /\ req.key = InactiveNodesDeleteScanResultsKey
    /\ req.value = JNumber(4)
    /\ resp = ValidatorError("Key: 'SettingUpdateRequest.ID' Error:invalid")
    /\ NothingWritten

\* The anatomy of a URL text, read off the text itself:
\* scheme ":" "//" [userinfo "@"] host [ "/" path ] [ "?" query ] [ "#" fragment ]
SchemeOf(u) ==
    LET i == Index(u, ":")
    IN  IF i > 1 /\ \A j \in 1..(i - 1) : IsLetter(u[j])
        THEN SubSeq(u, 1, i - 1) ELSE Empty

AfterAuthorityMark(u) ==
    LET rest == From(u, Index(u, ":") + 1)
    IN  IF HasPrefix(rest, <<"/", "/">>) THEN From(rest, 3) ELSE Empty

AuthorityEnd(a) ==
    IF \E i \in 1..Len(a) : a[i] \in {"/", "?", "#"}
    THEN CHOOSE i \in 1..Len(a) :
            a[i] \in {"/", "?", "#"} /\ \A j \in 1..(i - 1) : a[j] \notin {"/", "?", "#"}
    ELSE Len(a) + 1

HostOf(u) ==
    LET a == AfterAuthorityMark(u)
        authority == SubSeq(a, 1, AuthorityEnd(a) - 1)
    IN  From(authority, LastIndex(authority, "@") + 1)

TailOf(u) ==
    LET a == AfterAuthorityMark(u) IN From(a, AuthorityEnd(a))

IsAbsoluteUrl(u) ==
    /\ SchemeOf(u) # Empty
    /\ HostOf(u) # Empty
    /\ \A i \in 1..Len(HostOf(u)) : IsLetter(HostOf(u)[i])

LacksSchemeOrHost(v) ==
    v.t # "string" \/ SchemeOf(v.s) = Empty \/ HostOf(v.s) = Empty

TargetId == ParseInt(req.idText).n

\* C2: a console-URL update whose value lacks a scheme or lacks a host, or
\* is not a string, fails with 'must be url' and nothing is written.
C2_LacksSchemeOrHostFails ==
    (Responded /\ Addresses(req, ConsoleURLSettingKey) /\ LacksSchemeOrHost(req.value)) =>
        (resp = MustBeUrl /\ NothingWritten)

\* C3 (as claimed): a console-URL update with an absolute URL stores exactly
\* scheme + "://" + host of the input; path, query and fragment are dropped.
C3_Original ==
    (/\ Responded
     /\ Addresses(req, ConsoleURLSettingKey)
     /\ req.value.t = "string"
     /\ IsAbsoluteUrl(req.value.s)) =>
        /\ resp = Success
        /\ settings[TargetId].value =
              GoString(SchemeOf(req.value.s) \o <<":", "/", "/">> \o HostOf(req.value.s))

\* C3 (amended): a console-URL update with an absolute URL stores the
\* lower-cased scheme + "://" + host of the input, dropping user
\* information, path and query (and a fragment that follows a path or a
\* query); an input whose fragment follows the host directly is rejected
\* with 'must be url' and nothing is written.
C3_StoresSchemeAndHost ==
    (/\ Responded
     /\ Addresses(req, ConsoleURLSettingKey)
     /\ req.value.t = "string"
     /\ IsAbsoluteUrl(req.value.s)) =>
        IF HasPrefix(TailOf(req.value.s), <<"#">>)
        THEN resp = MustBeUrl /\ NothingWritten
        ELSE /\ resp = Success
             /\ settings[TargetId].value =
                   GoString(ToLower(SchemeOf(req.value.s)) \o <<":", "/", "/">>
                            \o HostOf(req.value.s))

C3_Witness ==
    /\ Responded
    /\ req = [idText |-> "1", key |-> ConsoleURLSettingKey,
              value |-> JString(<<"h", ":", "/", "/", "h", "/", "h", "?", "h">>)]
    /\ resp = Success
    /\ settings[1].value = GoString(<<"h", ":", "/", "/", "h">>)
    /\ before[1].value # settings[1].value

\* the integers nearest to q/4, and the one among them that a tie rule picks
IsNearest(n, q) == Abs(4 * n - q) <= 2
NearestHalfUp(q) ==
    CHOOSE n \in (-(Abs(q) + 4))..(Abs(q) + 4) :
        IsNearest(n, q) /\ \A m \in (-(Abs(q) + 4))..(Abs(q) + 4) : IsNearest(m, q) => m <= n
NearestHalfAwayFromZero(q) ==
    CHOOSE n \in (-(Abs(q) + 4))..(Abs(q) + 4) :
        IsNearest(n, q) /\ \A m \in (-(Abs(q) + 4))..(Abs(q) + 4) : IsNearest(m, q) => Abs(m) <= Abs(n)

\* C4 (as claimed): a numeric inactive-node-retention value is stored as the
\* nearest integer, ties rounded up, negative values and halves included.
C4_Original ==
    (Responded /\ Addresses(req, InactiveNodesDeleteScanResultsKey) /\ req.value.t = "number") =>
        /\ resp = Success
        /\ settings[TargetId].value = GoInt(NearestHalfUp(req.value.q))

\* C4 (amended): a numeric inactive-node-retention value is stored as the
\* nearest integer, ties rounded away from zero (2.5 gives 3, -2.5 gives -3).
C4_StoresNearestInteger ==
    (Responded /\ Addresses(req, InactiveNodesDeleteScanResultsKey) /\ req.value.t = "number") =>
        /\ resp = Success
        /\ settings[TargetId].value = GoInt(NearestHalfAwayFromZero(req.value.q))

C4_Witness ==
    /\ Responded
    /\ req = [idText |-> "2", key |-> InactiveNodesDeleteScanResultsKey,
              value |-> JNumber(-6)]
    /\ resp = Success
    /\ before[2].value # GoInt(-2)
    /\ settings[2].value = GoInt(-2)

\* C5: a non-numeric inactive-node-retention value fails with 'must be
\* integer' and the stored row is left unchanged.
C5_NonNumericFails ==
    (Responded /\ Addresses(req, InactiveNodesDeleteScanResultsKey) /\ req.value.t # "number") =>
        /\ resp = MustBeInteger
        /\ settings[TargetId] = before[TargetId]
        /\ NothingWritten

C5_Witness ==
    /\ Responded
    /\ req = [idText |-> "2", key |-> InactiveNodesDeleteScanResultsKey,
              value |-> JString(<<"a", "b", "c">>)]
    /\ resp = MustBeInteger
    /\ settings[2] = before[2]

\* C6: a successful update answers 204 and changes only the value of the
\* row it targets: its key, label, description and visibility, and every
\* other row, are as before.
C6_OnlyValueChanges ==
    (Responded /\ resp.kind = "none") =>
        /\ resp.status = 204
        /\ TargetId \in DOMAIN before
        /\ DOMAIN settings = DOMAIN before
        /\ settings[TargetId].key = before[TargetId].key
        /\ settings[TargetId].label = before[TargetId].label
        /\ settings[TargetId].description = before[TargetId].description
        /\ settings[TargetId].is_visible = before[TargetId].is_visible
        /\ \A id \in DOMAIN before : id # TargetId => settings[id] = before[id]
        /\ Len(writes) = 1

C6_Witness ==
    /\ Responded
    /\ resp.status = 204
    /\ req.key = ConsoleURLSettingKey
    /\ settings[1].value # before[1].value
    /\ settings[1].label = "Console URL"
    /\ settings[1].is_visible

\* C19: after any sequence of update requests the rows are the rows of
\* provisioning and each id has the key it had then; the row handed to the
\* store by an update has the id and the key of one stored row.
C19_RowsAndKeysKept ==
    /\ DOMAIN settings = SettingIds
    /\ \A id \in SettingIds : settings[id].key = ProvisionedSettings[id].key
    /\ \A i \in 1..Len(writes) :
          /\ writes[i].ID \in SettingIds
          /\ writes[i].Key = ProvisionedSettings[writes[i].ID].key

C19_Witness ==
    /\ Responded
    /\ resp.status = 204
    /\ req.key = InactiveNodesDeleteScanResultsKey
    /\ before[1].value # ProvisionedSettings[1].value
    /\ settings[2].value # before[2].value
    /\ Len(writes) = 1
    /\ writes[1].ID = 2

\* the request names a stored row by its id and its key, and the key is
\* neither of the two the handler converts a value for
AddressesOtherRow ==
    /\ req.key \notin {ConsoleURLSettingKey, InactiveNodesDeleteScanResultsKey}
    /\ ParseInt(req.idText).ok
    /\ TargetId \in DOMAIN before
    /\ before[TargetId].key = req.key

\* C21: an update of a setting whose key is neither the console URL nor the
\* retention key, with the id of the stored row, answers 204 and stores the
\* empty value (nil), whatever value the request carried.
C21_OtherKeyStoresNil ==
    (Responded /\ AddressesOtherRow) =>
        /\ resp = Success
        /\ resp.status = 204
        /\ Len(writes) = 1
        /\ writes[1].Value = GoNil
        /\ settings[TargetId].value = GoNil

C21_Witness ==
    /\ Responded
    /\ req = [idText |-> "3", key |-> OtherSettingKey, value |-> JNumber(6)]
    /\ before[3].value = GoString(<<"s">>)
    /\ resp.status = 204
    /\ settings[3].value = GoNil

ConsoleUpdated ==
    /\ Responded
    /\ resp = Success
    /\ req.key = ConsoleURLSettingKey

\* the request of the state, made again with the stored console URL as its value
Resubmitted ==
    HandleUpdate(settings, [req EXCEPT !.value = JString(settings[TargetId].value.s)])

\* C20 (as claimed): after a successful console-URL update, the update
\* made again with the stored value succeeds and leaves the stored value
\* as it is.
C20_ResubmitIsNoOp ==
    ConsoleUpdated =>
        /\ Resubmitted.resp = Success
        /\ Resubmitted.settings = settings

\* what holds instead: the stored value of a request that had a scheme is
\* accepted again and kept
ResubmitOfAbsoluteUrlIsNoOp ==
    (ConsoleUpdated /\ SchemeOf(Sprintf(req.value)) # Empty) =>
        /\ Resubmitted.resp = Success
        /\ Resubmitted.settings = settings

\* the stored value of a request that had no scheme is rejected
ResubmitOfSchemelessFails ==
    (ConsoleUpdated /\ SchemeOf(Sprintf(req.value)) = Empty) =>
        /\ settings[TargetId].value = GoString(<<":", "/", "/">>)
        /\ Resubmitted.resp = MustBeUrl
        /\ Resubmitted.settings = settings

----------------------------------------------------------------------------
(* Properties of the listing loader *)

\* the values of the entries called name, read off the query string
ValuesOf(params, name) ==
    LET sel == SelectSeq(params, LAMBDA e : e[1] = name)
    IN  [i \in 1..Len(sel) |-> sel[i][2]]

Elems(q) == {q[i] : i \in 1..Len(q)}

FilterOr(f, name) == IF name \in DOMAIN f THEN f[name] ELSE <<>>

\* C7: in every search request, node_id is the concatenation of the host,
\* container, image and language selections (absent when all are empty),
\* the languages are also the trigger_action match filter, and the cluster
\* selection is the kubernetes_cluster_id filter and no part of node_id.
C7_NodeIdFilter ==
    \A i \in 1..Len(sent) :
        LET nodeIn == sent[i].body.node_filters.contains_filter
            matchIn == sent[i].body.scan_filters.match_filter
            ids == ValuesOf(searchParams, "hosts") \o ValuesOf(searchParams, "containers")
                   \o ValuesOf(searchParams, "containerImages")
                   \o ValuesOf(searchParams, "languages")
            languages == ValuesOf(searchParams, "languages")
            clusters == ValuesOf(searchParams, "clusters")
        IN  /\ ("node_id" \in DOMAIN nodeIn) = (ids # <<>>)
            /\ FilterOr(nodeIn, "node_id") = ids
            /\ ("trigger_action" \in DOMAIN matchIn) = (languages # <<>>)
            /\ FilterOr(matchIn, "trigger_action") = languages
            /\ ("kubernetes_cluster_id" \in DOMAIN nodeIn) = (clusters # <<>>)
            /\ FilterOr(nodeIn, "kubernetes_cluster_id") = clusters
            /\ Elems(FilterOr(nodeIn, "node_id")) \cap Elems(clusters) = {}

C7_Witness ==
    /\ loadPc = "awaitCount"
    /\ searchParams = <<<<"languages", "l1">>, <<"clusters", "k1">>, <<"hosts", "h1">>>>
    /\ sent[1].body.node_filters.contains_filter["node_id"] = <<"h1", "l1">>
    /\ sent[2].body.scan_filters.match_filter["trigger_action"] = <<"l1">>
    /\ sent[1].body.node_filters.contains_filter["kubernetes_cluster_id"] = <<"k1">>

\* the page index written in the query string
PageIndex(params) ==
    IF ValuesOf(params, "page") = <<>> THEN 0
    ELSE toNumber(ValuesOf(params, "page")[1])

\* C8: the page request has window {offset: page*15, size: 15}; the count
\* request has the same filters, order and offset, and 10 times the size.
C8_Windows ==
    /\ Len(sent) >= 1 =>
          /\ sent[1].api = "searchSecretsScan"
          /\ sent[1].body.window =
                [offset |-> PageIndex(searchParams) * 15, size |-> 15]
    /\ Len(sent) >= 2 =>
          /\ sent[2].api = "searchSecretScanCount"
          /\ sent[2].body.node_filters = sent[1].body.node_filters
          /\ sent[2].body.scan_filters = sent[1].body.scan_filters
          /\ sent[2].body.window.offset = sent[1].body.window.offset
          /\ sent[2].body.window.size = 10 * sent[1].body.window.size

C8_Witness ==
    /\ loadPc = "awaitCount"
    /\ PageIndex(searchParams) = 2
    /\ sent[1].body.window = [offset |-> 30, size |-> 15]
    /\ sent[2].body.window = [offset |-> 30, size |-> 150]

LoadOver == loadPc \in {"returned", "thrown"}

\* C9 (as claimed): every load issues the page request and the count
\* request, whatever the outcome of the page request.
C9_Original ==
    LoadOver =>
        /\ Len(sent) = 2
        /\ sent[1].api = "searchSecretsScan"
        /\ sent[2].api = "searchSecretScanCount"

\* C9 (amended): every load issues the page request; the count request is
\* issued exactly when the page request succeeded, and a load whose page
\* request failed ends with that one request issued.
C9_TwoRequestsAfterPageSuccess ==
    /\ loadPc # "idle" => (Len(sent) >= 1 /\ sent[1].api = "searchSecretsScan")
    /\ loadPc = "awaitPage" => Len(sent) = 1
    /\ loadPc = "awaitCount" =>
          (Len(sent) = 2 /\ sent[2].api = "searchSecretScanCount" /\ lastResponse.status = 200)
    /\ loadPc = "returned" => (Len(sent) = 2 /\ sent[2].api = "searchSecretScanCount")
    /\ loadPc = "thrown" =>
          /\ lastResponse.status # 200
          /\ Len(sent) \in {1, 2}
          /\ Len(sent) = 2 => sent[2].api = "searchSecretScanCount"

C9_Witness ==
    /\ loadPc = "thrown"
    /\ Len(sent) = 1
    /\ lastResponse.status = 400

IsClientError(status) == status >= 400 /\ status <= 499

\* C10 (as claimed): a 4xx answer to either request makes getScans fail
\* with a domain error that carries the message of the payload, if any.
C10_Original ==
    (loadPc = "thrown" /\ IsClientError(lastResponse.status)) =>
        /\ loaded.kind = "ApiError"
        /\ lastResponse.message.def => loaded.results.message = lastResponse.message

\* C10 (amended): a 400 answer to either request makes getScans fail with a
\* domain error that carries the message of the payload, if any.
C10_BadRequestIsDomainError ==
    (loadPc = "thrown" /\ lastResponse.status = 400) =>
        /\ loaded.kind = "ApiError"
        /\ lastResponse.message.def => loaded.results.message = lastResponse.message

C10_Witness ==
    /\ loadPc = "thrown"
    /\ Len(sent) = 2
    /\ lastResponse.status = 400
    /\ lastResponse.message = Message("bad request")
    /\ loaded.kind = "ApiError"
    /\ loaded.results.message = Message("bad request")

\* the count a raw severity record holds for a tier, 0 when it holds none
CountOrZero(raw, tier) == IF raw[tier].def THEN raw[tier].n ELSE 0

\* C11: every row of the returned list has each of the five tiers equal to
\* the raw count, or 0 when the raw count is missing, and total equal to
\* critical + high + medium + low: unknown is no part of total.
C11_SeverityTotals ==
    (loadPc = "returned" /\ ~pageResult.isNull) =>
        /\ Len(loaded.results.scans) = Len(pageResult.rows)
        /\ \A i \in 1..Len(pageResult.rows) :
              LET raw == pageResult.rows[i].severity_counts
                  row == loaded.results.scans[i]
              IN  /\ row.scan_id = pageResult.rows[i].scan_id
                  /\ \A t \in Tiers : row[t] = CountOrZero(raw, t)
                  /\ row.total = CountOrZero(raw, "critical") + CountOrZero(raw, "high")
                                 + CountOrZero(raw, "medium") + CountOrZero(raw, "low")

C11_Witness ==
    /\ loadPc = "returned"
    /\ Len(pageResult.rows) = 1
    /\ pageResult.rows[1].severity_counts =
          [critical |-> Undefined, high |-> Some(2), medium |-> Undefined,
           low |-> Some(1), unknown |-> Some(2)]
    /\ loaded.results.scans[1].total = 3
    /\ loaded.results.scans[1].critical = 0
    /\ loaded.results.scans[1].unknown = 2

\* C12: when both requests succeed and the page request returns rows,
\* totalRows = page * 15 + count, count being the answer to the count
\* request, and currentPage is the page index of the query string.
C12_TotalRows ==
    (loadPc = "returned" /\ ~pageResult.isNull) =>
        /\ loaded.results.totalRows = PageIndex(searchParams) * 15 + lastResponse.count
        /\ loaded.results.currentPage = PageIndex(searchParams)

C12_Witness ==
    /\ loadPc = "returned"
    /\ ~pageResult.isNull
    /\ Len(pageResult.rows) = 1
    /\ PageIndex(searchParams) = 2
    /\ lastResponse.count = 2
    /\ loaded.results.totalRows = 32
    /\ loaded.results.currentPage = 2

\* C17: in every search request, the scan filters' order clause holds
\* exactly one field (the sortby value and its descending flag) when the
\* query string has a sort and no field when it has none; the node filters'
\* order clause is empty in both cases.
C17_OrderClause ==
    \A i \in 1..Len(sent) :
        LET sortby == ValuesOf(searchParams, "sortby")
            desc == ValuesOf(searchParams, "desc")
            scanOrder == sent[i].body.scan_filters.order_fields
        IN  /\ sent[i].body.node_filters.order_fields = <<>>
            /\ sortby = <<>> => scanOrder = <<>>
            /\ sortby # <<>> =>
                  /\ Len(scanOrder) = 1
                  /\ scanOrder[1].field_name = sortby[1]
                  /\ scanOrder[1].descending = (desc # <<>> /\ desc[1] = "true")

C17_Witness ==
    /\ loadPc = "awaitCount"
    /\ searchParams = <<<<"sortby", "updated_at">>, <<"desc", "true">>>>
    /\ sent[1].body.scan_filters.order_fields =
          <<[field_name |-> "updated_at", descending |-> TRUE]>>
    /\ sent[2].body.scan_filters.order_fields =
          <<[field_name |-> "updated_at", descending |-> TRUE]>>
    /\ sent[1].body.node_filters.order_fields = <<>>

\* C22: when the page request succeeds with a null result and the count
\* request succeeds, getScans returns no scans, totalRows 0 and currentPage
\* 1, whatever the page index of the query string and the count.
C22_NullPageGivesDefaults ==
    (loadPc = "returned" /\ pageResult.isNull) =>
        /\ loaded.kind = "returned"
        /\ loaded.results.scans = <<>>
        /\ loaded.results.totalRows = 0
        /\ loaded.results.currentPage = 1

C22_Witness ==
    /\ loadPc = "returned"
    /\ pageResult.isNull
    /\ PageIndex(searchParams) = 2
    /\ lastResponse.count = 2
    /\ loaded.results.totalRows = 0
    /\ loaded.results.currentPage = 1

AllNodeTypes == <<"container_image", "container", "host">>

\* C24: the node_type filter of every search request is never empty: it
\* is the three node types when the query string has no nodeType entry, and
\* the nodeType values of the query string otherwise.
C24_NodeTypeFilter ==
    \A i \in 1..Len(sent) :
        LET nodeIn == sent[i].body.node_filters.contains_filter
            nodeTypes == ValuesOf(searchParams, "nodeType")
        IN  /\ "node_type" \in DOMAIN nodeIn
            /\ nodeIn["node_type"] # <<>>
            /\ nodeTypes = <<>> => nodeIn["node_type"] = AllNodeTypes
            /\ nodeTypes # <<>> => nodeIn["node_type"] = nodeTypes

C24_Witness ==
    /\ loadPc = "awaitCount"
    /\ searchParams = <<<<"status", "complete">>, <<"hosts", "h1">>>>
    /\ sent[1].body.node_filters.contains_filter["node_type"] = AllNodeTypes
    /\ sent[2].body.node_filters.contains_filter["node_type"] = AllNodeTypes

----------------------------------------------------------------------------
(* Properties of the listing view *)

\* the entries of a query string that are not called name, in their order
Without(params, name) == SelectSeq(params, LAMBDA e : e[1] # name)

FilterNames ==
    {"nodeType", "status", "hosts", "containers", "containerImages", "languages",
     "clusters"}

QueryNames == FilterNames \cup {"page", "sortby", "desc"}

IsFilterMutation == mutation.kind \in {"check", "uncheck", "select"}

\* C13: after every filter mutation (a box checked or unchecked, a selection
\* changed) the query string has no page parameter; a sort change leaves the
\* page parameter and every filter parameter as they were; a page change
\* leaves every entry but page as it was.
C13_PageReset ==
    /\ IsFilterMutation => ~Has(searchParams, "page")
    /\ mutation.kind = "sort" =>
          /\ Without(Without(searchParams, "sortby"), "desc")
                = Without(Without(prevParams, "sortby"), "desc")
          /\ \A name \in FilterNames \cup {"page"} :
                ValuesOf(searchParams, name) = ValuesOf(prevParams, name)
    /\ mutation.kind = "page" =>
          /\ Without(searchParams, "page") = Without(prevParams, "page")
          /\ ValuesOf(searchParams, "page") = <<String(mutation.pageIndex)>>

C13_Witness ==
    /\ mutation.kind = "uncheck"
    /\ mutation.box.value = "in_progress"
    /\ ValuesOf(prevParams, "page") = <<"2">>
    /\ ValuesOf(prevParams, "status") = <<"in_progress", "error">>
    /\ searchParams = <<<<"status", "error">>>>

\* the Host box was checked and then unchecked, with no change in between
HostRoundTrip ==
    /\ mutation = UncheckOf(HostBox)
    /\ origin.set
    /\ ~includes(ValuesOf(origin.params, "nodeType"), "host")

\* C14: checking the Host box where host is not selected and then unchecking
\* it gives back the parameters of the start with their values, the other
\* nodeType values in their order, and no page parameter.
C14_HostRoundTrip ==
    HostRoundTrip =>
        /\ ~Has(searchParams, "page")
        /\ \A name \in QueryNames \ {"page"} :
              ValuesOf(searchParams, name) = ValuesOf(origin.params, name)
        /\ Len(searchParams) = Len(Without(origin.params, "page"))

C14_Witness ==
    /\ HostRoundTrip
    /\ origin.params = <<<<"nodeType", "container">>, <<"nodeType", "container_image">>,
                         <<"page", "1">>>>
    /\ prevParams = <<<<"nodeType", "container">>, <<"nodeType", "container_image">>,
                      <<"nodeType", "host">>>>
    /\ searchParams = <<<<"nodeType", "container">>, <<"nodeType", "container_image">>>>

\* C15 (as claimed): every change of the query string is idempotent: made a
\* second time, right after the first, it leaves the query string as the
\* first left it.
C15_Idempotent ==
    mutation.kind # "none" => Apply(mutation, searchParams) = searchParams

\* what holds instead: every change but the checking of a box is idempotent
IdempotentButCheck ==
    (mutation.kind # "none" /\ mutation.kind # "check") =>
        Apply(mutation, searchParams) = searchParams

\* the checking of a box, made a second time, adds the value a second time
CheckAppendsAgain ==
    mutation.kind = "check" =>
        /\ Apply(mutation, searchParams) # searchParams
        /\ Len(SelectSeq(ValuesOf(Apply(mutation, searchParams), mutation.box.name),
                         LAMBDA v : v = mutation.box.value)) = 2

----------------------------------------------------------------------------
(* Properties of the row action *)

DeleteOver ==
    /\ form.actionType = "delete"
    /\ remote # <<>>
    /\ actPc \in {"returned", "thrown"}

Last(q) == q[Len(q)]

Submitted == actPc # "idle"

LacksField == form.actionType = "" \/ form.scanId = "" \/ form.nodeId = ""

NothingDone == remote = <<>> /\ toasts = <<>> /\ clicked = <<>>

\* C23: a row action submitted without an action type, a scan id or a node
\* id fails with 'Invalid action', with no remote operation invoked and no
\* notification shown; an action of a type that is neither delete nor
\* download invokes no remote operation and returns null.
C23_InvalidAndUnknownActions ==
    /\ (Submitted /\ LacksField) =>
          /\ actPc = "thrown"
          /\ actError = "Invalid action"
          /\ NothingDone
    /\ (Submitted /\ ~LacksField /\ form.actionType \notin {"delete", "download"}) =>
          /\ actPc = "returned"
          /\ actError = ""
          /\ NothingDone

C23_Witness ==
    /\ form = [actionType |-> "delete", scanId |-> "", nodeId |-> "n1"]
    /\ actPc = "thrown"
    /\ actError = "Invalid action"
    /\ NothingDone

----------------------------------------------------------------------------
(* Properties of concurrent requests *)

AllDone == \A c \in Clients : clients[c].pc = "done"

\* the clients whose request succeeded on the row id
Succeeded(id) ==
    {c \in Clients : clients[c].resp = Success /\ clients[c].setting.ID = id}

\* the value the handler makes of the value of a request
Normalised(r) == ConvertValue(r.key, r.value).value

\* C18: when concurrent requests are all answered, whatever their
\* interleaving, each row some request succeeded on holds the normalised
\* value of one of those requests, every other row holds its value of
\* before, and id, key, label, description and visibility are as before.
C18_LastWriterWins ==
    (clients # <<>> /\ AllDone) =>
        /\ DOMAIN settings = SettingIds
        /\ \A id \in SettingIds :
              /\ settings[id].key = ProvisionedSettings[id].key
              /\ settings[id].label = ProvisionedSettings[id].label
              /\ settings[id].description = ProvisionedSettings[id].description
              /\ settings[id].is_visible = ProvisionedSettings[id].is_visible
              /\ IF Succeeded(id) = {}
                 THEN settings[id].value = ProvisionedSettings[id].value
                 ELSE \E c \in Succeeded(id) :
                        settings[id].value = Normalised(clients[c].req)

C18_Witness ==
    /\ AllDone
    /\ Succeeded(1) = {1, 2}
    /\ clients[1].read = ProvisionedSettings[1].value
    /\ clients[2].read = ProvisionedSettings[1].value
    /\ clients[1].setting.Value = GoString(<<"h", ":", "/", "/", "h">>)
    /\ clients[2].setting.Value = GoString(<<"h", ":", "/", "/", "h", "h">>)
    /\ settings[1].value = GoString(<<"h", ":", "/", "/", "h">>)

====
